---------------------------- MODULE Spec2Model ----------------------------
(***************************************************************************)
(* Model of firehose/auth_handler.go: the token-authentication middleware  *)
(* AuthHandler wrapping a downstream http.Handler.                         *)
(*                                                                         *)
(* Go strings are modelled as sequences of byte values (0..255).  A        *)
(* request is served on a connection; ServeHTTP runs as one step.          *)
(***************************************************************************)
EXTENDS Naturals, Sequences, FiniteSets

(***************************************************************************)
(* Byte strings.  B("...") writes a Go string literal as its bytes.        *)
(***************************************************************************)
Upper == "ABCDEFGHIJKLMNOPQRSTUVWXYZ"
Lower == "abcdefghijklmnopqrstuvwxyz"
Digits == "0123456789"
Punct == " !:+/=_"
PunctOrd == <<32, 33, 58, 43, 47, 61, 95>>

CharIn(c, s) == \E i \in 1..Len(s) : SubSeq(s, i, i) = c
CharIndex(c, s) == CHOOSE i \in 1..Len(s) : SubSeq(s, i, i) = c

Ord(c) ==
    IF CharIn(c, Upper) THEN 64 + CharIndex(c, Upper)
    ELSE IF CharIn(c, Lower) THEN 96 + CharIndex(c, Lower)
    ELSE IF CharIn(c, Digits) THEN 47 + CharIndex(c, Digits)
    ELSE PunctOrd[CharIndex(c, Punct)]

B(s) == [i \in 1..Len(s) |-> Ord(SubSeq(s, i, i))]

\* strings.IndexByte: the first position of byte b in s, 0 when absent.
IndexByte(s, b) ==
    IF \E i \in 1..Len(s) : s[i] = b
    THEN CHOOSE i \in 1..Len(s) : s[i] = b /\ \A j \in 1..(i - 1) : s[j] # b
    ELSE 0

\* strings.SplitN(value, " ", 2): at most two parts, cut at the first space.
SplitN2(value, sep) ==
    LET i == IndexByte(value, sep)
    IN  IF i = 0 THEN <<value>>
        ELSE <<SubSeq(value, 1, i - 1), SubSeq(value, i + 1, Len(value))>>

\* strings.Split(s, ":"): every part between separators.
RECURSIVE Split(_, _)
Split(s, sep) ==
    LET i == IndexByte(s, sep)
    IN  IF i = 0 THEN <<s>>
        ELSE <<SubSeq(s, 1, i - 1)>> \o Split(SubSeq(s, i + 1, Len(s)), sep)

Space == 32
Colon == 58
PadChar == 61
LF == 10
CR == 13

(***************************************************************************)
(* base64.StdEncoding: the standard alphabet with '=' padding, not strict  *)
(* (non-zero trailing bits are accepted); '\r' and '\n' are ignored.       *)
(***************************************************************************)
\* "ABCDEFGHIJKLMNOPQRSTUVWXYZabcdefghijklmnopqrstuvwxyz0123456789+/"
encodeStd ==
    <<65, 66, 67, 68, 69, 70, 71, 72, 73, 74, 75, 76, 77, 78, 79, 80,
      81, 82, 83, 84, 85, 86, 87, 88, 89, 90, 97, 98, 99, 100, 101, 102,
      103, 104, 105, 106, 107, 108, 109, 110, 111, 112, 113, 114, 115, 116, 117, 118,
      119, 120, 121, 122, 48, 49, 50, 51, 52, 53, 54, 55, 56, 57, 43, 47>>

IsB64(b) == \E i \in 1..Len(encodeStd) : encodeStd[i] = b
B64Val(b) == (CHOOSE i \in 1..Len(encodeStd) : encodeStd[i] = b) - 1

\* One or more quanta of four characters; [err, out].
RECURSIVE DecodeQuanta(_)
DecodeQuanta(s) ==
    IF Len(s) = 0 THEN [err |-> FALSE, out |-> <<>>]
    ELSE IF Len(s) < 4 THEN [err |-> TRUE, out |-> <<>>]
    ELSE IF IsB64(s[1]) /\ IsB64(s[2]) /\ IsB64(s[3]) /\ IsB64(s[4]) THEN
        LET n == B64Val(s[1]) * 262144 + B64Val(s[2]) * 4096
                 + B64Val(s[3]) * 64 + B64Val(s[4])
            rest == DecodeQuanta(SubSeq(s, 5, Len(s)))
        IN  [err |-> rest.err,
             out |-> <<n \div 65536, (n \div 256) % 256, n % 256>> \o rest.out]
    ELSE IF IsB64(s[1]) /\ IsB64(s[2]) /\ IsB64(s[3]) /\ s[4] = PadChar /\ Len(s) = 4 THEN
        LET n == B64Val(s[1]) * 4096 + B64Val(s[2]) * 64 + B64Val(s[3])
        IN  [err |-> FALSE, out |-> <<n \div 1024, (n \div 4) % 256>>]
    ELSE IF IsB64(s[1]) /\ IsB64(s[2]) /\ s[3] = PadChar /\ s[4] = PadChar /\ Len(s) = 4 THEN
        LET n == B64Val(s[1]) * 64 + B64Val(s[2])
        IN  [err |-> FALSE, out |-> <<n \div 16>>]
    ELSE [err |-> TRUE, out |-> <<>>]

\* base64.StdEncoding.DecodeString
DecodeString(s) == DecodeQuanta(SelectSeq(s, LAMBDA b : b \notin {LF, CR}))

\* base64.StdEncoding.EncodeToString, as a client builds Basic credentials.
RECURSIVE EncodeToString(_)
EncodeToString(b) ==
    LET E(v) == encodeStd[v + 1]
    IN  IF Len(b) = 0 THEN <<>>
        ELSE IF Len(b) = 1 THEN
            <<E(b[1] \div 4), E((b[1] % 4) * 16), PadChar, PadChar>>
        ELSE IF Len(b) = 2 THEN
            <<E(b[1] \div 4), E((b[1] % 4) * 16 + b[2] \div 16),
              E((b[2] % 16) * 4), PadChar>>
        ELSE
            <<E(b[1] \div 4), E((b[1] % 4) * 16 + b[2] \div 16),
              E((b[2] % 16) * 4 + b[3] \div 64), E(b[3] % 64)>>
            \o EncodeToString(SubSeq(b, 4, Len(b)))

(***************************************************************************)
(* Parse, ParseRequest, NewBasic                                           *)
(***************************************************************************)
\* Variant: a value without a space is taken as a scheme with empty
\* credentials.
Parse_schemeOnly(value) ==
    LET parts == SplitN2(value, Space)
    IN  IF Len(parts) = 2
        THEN [scheme |-> parts[1], credentials |-> parts[2], err |-> FALSE]
        ELSE [scheme |-> parts[1], credentials |-> <<>>, err |-> TRUE]

\* Parse(value): (scheme, credentials, err).
Parse(value) ==
    LET parts == SplitN2(value, Space)
    IN  IF Len(parts) = 2
        THEN [scheme |-> parts[1], credentials |-> parts[2], err |-> FALSE]
        ELSE [scheme |-> <<>>, credentials |-> <<>>, err |-> TRUE]

\* ParseRequest(r): reads r.Header["Authorization"] and parses its first value.
ParseRequest(r) ==
    IF "Authorization" \notin DOMAIN r.Header \/ Len(r.Header["Authorization"]) = 0
    THEN [scheme |-> <<>>, credentials |-> <<>>, err |-> TRUE]
    ELSE Parse(r.Header["Authorization"][1])

\* NewBasic(credentials): (*Basic, error); the pointer is nil on error.
NilBasic == [isNil |-> TRUE, Username |-> <<>>, Password |-> <<>>]

\* Variant: the two fields are taken in the other order.
NewBasic_swapped(credentials) ==
    LET d == DecodeString(credentials)
        parts == Split(d.out, Colon)
    IN  IF ~d.err /\ Len(parts) = 2
        THEN [basic |-> [isNil |-> FALSE, Username |-> parts[2], Password |-> parts[1]],
              err |-> FALSE]
        ELSE [basic |-> NilBasic, err |-> TRUE]

NewBasic(credentials) ==
    LET d == DecodeString(credentials)
        parts == Split(d.out, Colon)
    IN  IF ~d.err /\ Len(parts) = 2
        THEN [basic |-> [isNil |-> FALSE, Username |-> parts[1], Password |-> parts[2]],
              err |-> FALSE]
        ELSE [basic |-> NilBasic, err |-> TRUE]

(***************************************************************************)
(* http.Request, as far as the middleware reads or writes it.  url.Values  *)
(* is a function from parameter names to value lists; a nil map is         *)
(* [isNil |-> TRUE].  RawQuery and the form-encoded body are kept as the   *)
(* ordered (name, value) pairs that url.ParseQuery extracts.               *)
(***************************************************************************)
EmptyValues == [k \in {} |-> <<>>]
NilValues == [isNil |-> TRUE, vals |-> EmptyValues]
MakeValues(v) == [isNil |-> FALSE, vals |-> v]

FormUrlEncoded == "application/x-www-form-urlencoded"

\* url.ParseQuery: the values of every name, in order of appearance.
ParseQuery(pairs) ==
    LET RECURSIVE Collect(_, _)
        Collect(k, i) ==
            IF i > Len(pairs) THEN <<>>
            ELSE (IF pairs[i][1] = k THEN <<pairs[i][2]>> ELSE <<>>) \o Collect(k, i + 1)
    IN  [k \in {pairs[i][1] : i \in 1..Len(pairs)} |-> Collect(k, 1)]

\* copyValues(dst, src): appends the values of src after those of dst.
copyValues(dst, src) ==
    [k \in DOMAIN dst \cup DOMAIN src |->
        (IF k \in DOMAIN dst THEN dst[k] ELSE <<>>)
        \o (IF k \in DOMAIN src THEN src[k] ELSE <<>>)]

\* (*http.Request).ParseForm, called at line 62: fills PostForm from a
\* form-encoded POST/PUT/PATCH body (reading the body) and Form from PostForm
\* followed by the URL query; fields already set are left alone.
ParseForm(r) ==
    LET r1 == IF ~r.PostForm.isNil THEN r
              ELSE IF r.Method \in {"POST", "PUT", "PATCH"} /\ r.ContentType = FormUrlEncoded
                   THEN [r EXCEPT !.PostForm = MakeValues(ParseQuery(r.Body.pairs)),
                                  !.Body.read = TRUE]
                   ELSE [r EXCEPT !.PostForm = MakeValues(EmptyValues)]
    IN  IF ~r1.Form.isNil THEN r1
        ELSE [r1 EXCEPT !.Form =
                 MakeValues(copyValues(r1.PostForm.vals, ParseQuery(r1.RawQuery)))]

\* req.Form["access_token"]: indexing a map yields the empty slice for a
\* missing key.
FormValues(r, k) == IF k \in DOMAIN r.Form.vals THEN r.Form.vals[k] ELSE <<>>

(***************************************************************************)
(* AuthHandler.authorize.  The result carries the two named return values, *)
(* whether the call panicked, and the request as the call leaves it.       *)
(***************************************************************************)
\* "Bearer" and "Basic"
Bearer == <<66, 101, 97, 114, 101, 114>>
Basic == <<66, 97, 115, 105, 99>>

Ret(unauthorized, reason, req) ==
    [unauthorized |-> unauthorized, reason |-> reason, panic |-> FALSE, req |-> req]
Panic(req) ==
    [unauthorized |-> FALSE, reason |-> "", panic |-> TRUE, req |-> req]

\* Variant: req.Form.Get("access_token"), which is "" for a missing parameter.
caseDefault_get(req, token) ==
    LET r == ParseForm(req)
        v == FormValues(r, "access_token")
        first == IF Len(v) = 0 THEN <<>> ELSE v[1]
    IN  IF first # token
        THEN Ret(TRUE, "Mising or invalid access_token", r)
        ELSE Ret(FALSE, "", r)

\* default: try the 'access_token' query param
caseDefault(req, token) ==
    LET r == ParseForm(req)
        v == FormValues(r, "access_token")
    IN  IF Len(v) = 0 \/ v[1] # token
        THEN Ret(TRUE, "Mising or invalid access_token", r)
        ELSE Ret(FALSE, "", r)

\* Variant: the presented credentials need only be a prefix of the token.
caseBearer_prefix(req, credentials, token) ==
    IF Len(credentials) > Len(token) \/ credentials # SubSeq(token, 1, Len(credentials))
    THEN Ret(TRUE, "Invalid Access Token", req)
    ELSE Ret(FALSE, "", req)

\* Variant: a wrong bearer token falls back to the access_token parameter.
caseBearer_fallback(req, credentials, token) ==
    IF credentials # token
    THEN caseDefault(req, token)
    ELSE Ret(FALSE, "", req)

\* case "Bearer"
caseBearer(req, credentials, token) ==
    IF credentials # token
    THEN Ret(TRUE, "Invalid Access Token", req)
    ELSE Ret(FALSE, "", req)

\* case "Basic": after a failed NewBasic, basic is nil and basic.Password is
\* a nil pointer dereference, a run-time panic.
caseBasic(req, credentials, token) ==
    LET nb == NewBasic(credentials)
        r1 == IF nb.err
              THEN Ret(TRUE, "Malformed Basic Authorization crdentials", req)
              ELSE Ret(FALSE, "", req)
    IN  IF nb.basic.isNil THEN Panic(req)
        ELSE IF nb.basic.Password # token
        THEN Ret(TRUE, "Invalid credentials", req)
        ELSE r1

\* Variant: the scheme is matched without regard to letter case.
authorize_anyCase(req, token) ==
    LET p == ParseRequest(req)
    IN  IF p.scheme \in {Bearer, B("bearer"), B("BEARER")}
        THEN caseBearer(req, p.credentials, token)
        ELSE IF p.scheme \in {Basic, B("basic"), B("BASIC")}
        THEN caseBasic(req, p.credentials, token)
        ELSE caseDefault(req, token)

\* Variant: the form is parsed before the scheme is looked at.
authorize_parseFirst(req, token) ==
    LET r == ParseForm(req)
        p == ParseRequest(r)
    IN  IF p.scheme = Bearer THEN caseBearer(r, p.credentials, token)
        ELSE IF p.scheme = Basic THEN caseBasic(r, p.credentials, token)
        ELSE caseDefault(r, token)

authorize(req, token) ==
    LET p == ParseRequest(req)
    IN  IF p.scheme = Bearer THEN caseBearer(req, p.credentials, token)
        ELSE IF p.scheme = Basic THEN caseBasic(req, p.credentials, token)
        ELSE caseDefault(req, token)

StatusUnauthorized == 401

(***************************************************************************)
(* State: the middleware object and the connections being served.          *)
(***************************************************************************)
VARIABLES handler, conn
vars == <<handler, conn>>

\* NewAuthHandler(app, token)
NewAuthHandler(app, token) == [app |-> app, token |-> token]

NoRequest ==
    [Method |-> "", Header |-> [k \in {} |-> <<>>], RawQuery |-> <<>>,
     ContentType |-> "", Body |-> [pairs |-> <<>>, read |-> FALSE],
     PostForm |-> NilValues, Form |-> NilValues]

\* A connection with no request in progress.
Idle ==
    [pc |-> "idle", recv |-> NoRequest, req |-> NoRequest,
     status |-> 0, error |-> "", logged |-> <<>>, forwarded |-> <<>>,
     panicked |-> FALSE]

(***************************************************************************)
(* The requests a client may send and the tokens the gate may be           *)
(* configured with.                                                        *)
(***************************************************************************)
MaxHeaderValues == 2
MaxParamValues == 2
NumConns == 2

Tokens == {B(""), B("t"), B("a b")}
Wrong == B("x")
Creds == Tokens \cup {Wrong}
Users == {B("alice"), B("bob")}
Apps == {"app"}

SeqsUpTo(S, n) == UNION {[1..k -> S] : k \in 0..n}

BearerValues == {Bearer \o <<Space>> \o c : c \in Creds}
BasicValues ==
    {Basic \o <<Space>> \o EncodeToString(u \o <<Colon>> \o p) : u \in Users, p \in Creds}
\* Basic credentials NewBasic rejects: not base64, bad padding, empty, no
\* colon, more than one colon.
BasicMalformedValues ==
    {Basic \o <<Space>> \o c :
        c \in {B("!!!!"), B("YTp0="), B(""), EncodeToString(B("alice")),
               EncodeToString(B("alice:t:t")), EncodeToString(B("alice:a b:")),
               EncodeToString(B("t"))}}
\* Accepted by the non-strict decoder: ":t" with non-zero trailing bits
\* (an empty user name).
BasicLenientValues == {Basic \o <<Space>> \o B("OnR=")}
OtherSchemeValues ==
    {s \o <<Space>> \o c :
        s \in {B("bearer"), B("BASIC"), B("Weirdscheme"), B("")},
        c \in Creds \cup {B("abc")}}
\* Header values without any space.
UnsplittableValues == {B("Bearer"), B("Basic"), B(""), B("t"), B("Bearert")}

HeaderValues ==
    BearerValues \cup BasicValues \cup BasicLenientValues \cup BasicMalformedValues
    \cup OtherSchemeValues \cup UnsplittableValues

Headers ==
    {[k \in {} |-> <<>>]}
    \cup {[Authorization |-> <<>>]}
    \cup {[Authorization |-> <<v>>] : v \in HeaderValues}
    \cup {[Authorization |-> l] :
            l \in {m \in SeqsUpTo({B("Bearer t"), B("Bearer x"), B("t")}, MaxHeaderValues) :
                     Len(m) >= 2}}

Param(l) == [i \in 1..Len(l) |-> <<"access_token", l[i]>>]
ParamLists == SeqsUpTo(Creds, MaxParamValues)

Request(method, header, query, ctype, body) ==
    [Method |-> method, Header |-> header, RawQuery |-> query,
     ContentType |-> ctype, Body |-> [pairs |-> body, read |-> FALSE],
     PostForm |-> NilValues, Form |-> NilValues]

\* (method, query, content type, body) of the requests.
Shapes ==
    {<<"GET", Param(l), "", <<>> >> : l \in ParamLists}
    \cup {<<"GET", << <<"other", B("t")>> >> \o Param(l), "", <<>> >> :
            l \in SeqsUpTo(Creds, 1)}
    \cup {<<"POST", Param(q), FormUrlEncoded, Param(b)>> :
            q \in SeqsUpTo(Creds, 1), b \in SeqsUpTo(Creds, 1)}
    \cup {<<"POST", Param(q), "application/json", Param(b)>> :
            q \in SeqsUpTo({B("t")}, 1), b \in SeqsUpTo({B("t")}, 1)}

\* A request whose Form an outer handler has already set, with an
\* access_token entry that has no values.
Preparsed(r) ==
    [r EXCEPT !.PostForm = MakeValues(EmptyValues),
              !.Form = MakeValues([k \in {"access_token"} |-> <<>>])]

Requests ==
    LET fresh == {Request(s[1], h, s[2], s[3], s[4]) : h \in Headers, s \in Shapes}
    IN  fresh \cup {Preparsed(r) : r \in {x \in fresh : x.Method = "GET" /\ Len(x.RawQuery) = 1}}

\* The requests of the concurrent specification: one or two of each kind.
CoreRequests ==
    {Request("GET", h, q, "", <<>>) :
        h \in {[k \in {} |-> <<>>]}
              \cup {[Authorization |-> <<v>>] :
                      v \in {B("Bearer t"), B("Bearer x"),
                             Basic \o <<Space>> \o EncodeToString(B("alice:t")),
                             Basic \o <<Space>> \o EncodeToString(B("alice:x")),
                             B("Basic !!!!"), B("Weirdscheme abc"), B("Bearer")}},
        q \in {Param(<<>>), Param(<<B("t")>>)}}

(***************************************************************************)
(* Actions                                                                 *)
(***************************************************************************)
Init ==
    /\ handler \in {NewAuthHandler(a, t) : a \in Apps, t \in Tokens}
    /\ conn = [c \in 1..NumConns |-> Idle]

\* The server accepts a request of the set R on connection c.
Receive(c, R) ==
    /\ conn[c].pc = "idle"
    /\ \E r \in R :
           conn' = [conn EXCEPT ![c] =
                       [Idle EXCEPT !.pc = "received", !.recv = r, !.req = r]]
    /\ UNCHANGED handler

\* Variant: a rejected request clears the token the gate holds.
ServeHTTP_clearToken(c) ==
    /\ conn[c].pc = "received"
    /\ LET a == authorize(conn[c].req, handler.token)
       IN  /\ conn' = [conn EXCEPT ![c] =
                  IF a.panic
                  THEN [@ EXCEPT !.pc = "done", !.req = a.req, !.panicked = TRUE]
                  ELSE IF a.unauthorized = TRUE
                  THEN [@ EXCEPT !.pc = "done", !.req = a.req,
                                 !.logged = <<a.reason>>,
                                 !.status = StatusUnauthorized, !.error = a.reason]
                  ELSE [@ EXCEPT !.pc = "done", !.req = a.req,
                                 !.forwarded = Append(@, a.req)]]
           /\ handler' = IF ~a.panic /\ a.unauthorized
                         THEN [handler EXCEPT !.token = <<>>]
                         ELSE handler

\* AuthHandler.ServeHTTP on the request of connection c.  status and error
\* are the code and the text given to http.Error, logged what log.Println
\* got, forwarded the requests handed to app.ServeHTTP.
ServeHTTP(c) ==
    /\ conn[c].pc = "received"
    /\ LET a == authorize(conn[c].req, handler.token)
       IN  conn' = [conn EXCEPT ![c] =
               IF a.panic
               THEN [@ EXCEPT !.pc = "done", !.req = a.req, !.panicked = TRUE]
               ELSE IF a.unauthorized = TRUE
               THEN [@ EXCEPT !.pc = "done", !.req = a.req,
                              !.logged = <<a.reason>>,
                              !.status = StatusUnauthorized, !.error = a.reason]
               ELSE [@ EXCEPT !.pc = "done", !.req = a.req,
                              !.forwarded = Append(@, a.req)]]
    /\ UNCHANGED handler

\* The exchange on connection c is over.
Close(c) ==
    /\ conn[c].pc = "done"
    /\ conn' = [conn EXCEPT ![c] = Idle]
    /\ UNCHANGED handler

\* One connection, every request.
Next ==
    \/ Receive(1, Requests)
    \/ ServeHTTP(1)
    \/ Close(1)

Spec == Init /\ [][Next]_vars

\* NumConns connections served concurrently.
NextConcurrent ==
    \E c \in 1..NumConns :
        \/ Receive(c, CoreRequests)
        \/ ServeHTTP(c)
        \/ Close(c)

SpecConcurrent == Init /\ [][NextConcurrent]_vars

(***************************************************************************)
(* Properties                                                              *)
(***************************************************************************)
Conns == 1..NumConns

Reasons ==
    {"Invalid Access Token", "Malformed Basic Authorization crdentials",
     "Invalid credentials", "Mising or invalid access_token"}

Done(c) == conn[c].pc = "done"

\* The downstream handler was called once and the gate wrote nothing.
Forwarded(c) ==
    /\ Done(c)
    /\ Len(conn[c].forwarded) = 1
    /\ conn[c].status = 0 /\ conn[c].error = ""
    /\ ~conn[c].panicked

\* The gate answered 401 with the given text and did not call downstream.
Rejected(c, reason) ==
    /\ Done(c)
    /\ conn[c].status = 401 /\ conn[c].error = reason
    /\ conn[c].forwarded = <<>>
    /\ ~conn[c].panicked

HasPrefix(s, prefix) ==
    Len(s) >= Len(prefix) /\ SubSeq(s, 1, Len(prefix)) = prefix
TrimPrefix(s, prefix) == SubSeq(s, Len(prefix) + 1, Len(s))

\* The received request carries at least one Authorization value.
HasAuthorization(c) ==
    /\ "Authorization" \in DOMAIN conn[c].recv.Header
    /\ Len(conn[c].recv.Header["Authorization"]) > 0
FirstAuthorization(c) == conn[c].recv.Header["Authorization"][1]

BearerSp == B("Bearer ")
BasicSp == B("Basic ")

\* The first value is "Bearer <T>" / "Basic <C>".
IsBearer(c) == HasAuthorization(c) /\ HasPrefix(FirstAuthorization(c), BearerSp)
IsBasic(c) == HasAuthorization(c) /\ HasPrefix(FirstAuthorization(c), BasicSp)

\* The first value is "Basic " followed by base64(user ":" password).
IsBasicOf(c, user, password) ==
    /\ HasAuthorization(c)
    /\ FirstAuthorization(c) = BasicSp \o EncodeToString(user \o <<Colon>> \o password)

\* The first value contains no space.
IsUnsplittable(c) ==
    HasAuthorization(c) /\ \A i \in 1..Len(FirstAuthorization(c)) : FirstAuthorization(c)[i] # Space

\* The first value has a space, and what precedes the first space is
\* neither "Bearer" nor "Basic".
IsOtherScheme(c) ==
    /\ HasAuthorization(c)
    /\ \E i \in 1..Len(FirstAuthorization(c)) : FirstAuthorization(c)[i] = Space
    /\ ~HasPrefix(FirstAuthorization(c), BearerSp)
    /\ ~HasPrefix(FirstAuthorization(c), BasicSp)

\* The parsed form has an access_token parameter with at least one value
\* whose first value is the configured token.
AccessTokenOk(c) ==
    LET f == conn[c].req.Form
    IN  /\ ~f.isNil
        /\ "access_token" \in DOMAIN f.vals
        /\ Len(f.vals["access_token"]) >= 1
        /\ f.vals["access_token"][1] = handler.token

\* The decision of the access_token channel.
AccessTokenDecision(c) ==
    /\ Forwarded(c) <=> AccessTokenOk(c)
    /\ ~AccessTokenOk(c) => Rejected(c, "Mising or invalid access_token")

\* C1: a request whose first Authorization value is "Bearer <T>" is
\* forwarded iff T is the configured token; otherwise it gets 401 "Invalid
\* Access Token" and downstream is not called.
C1_Bearer ==
    \A c \in Conns :
        Done(c) /\ IsBearer(c) =>
            LET T == TrimPrefix(FirstAuthorization(c), BearerSp)
            IN  /\ Forwarded(c) <=> T = handler.token
                /\ T # handler.token => Rejected(c, "Invalid Access Token")

C1_Witness ==
    \E c \in Conns :
        /\ IsBearer(c) /\ Forwarded(c)
        /\ \E i \in 1..Len(handler.token) : handler.token[i] = Space

\* C2: a request with "Basic base64(user:password)" is forwarded iff the
\* password is the configured token, whatever the user name; otherwise it
\* gets 401 "Invalid credentials".
C2_Basic ==
    \A c \in Conns :
        /\ \A u \in Users, p \in Creds :
              Done(c) /\ IsBasicOf(c, u, p) =>
                  /\ Forwarded(c) <=> p = handler.token
                  /\ p # handler.token => Rejected(c, "Invalid credentials")
        /\ Done(c) /\ IsBasic(c) =>
              LET d == DecodeString(TrimPrefix(FirstAuthorization(c), BasicSp))
                  fields == Split(d.out, Colon)
              IN  ~d.err /\ Len(fields) = 2 =>
                      /\ Forwarded(c) <=> fields[2] = handler.token
                      /\ fields[2] # handler.token => Rejected(c, "Invalid credentials")

C2_Witness ==
    \E c \in Conns :
        /\ IsBasicOf(c, B("bob"), handler.token) /\ Forwarded(c)
        /\ handler.token # <<>>

\* C3: a request with "Basic <C>" where C is not base64, or does not decode
\* to exactly two colon-separated fields, gets 401 "Malformed Basic
\* Authorization crdentials" and downstream is not called.
C3_MalformedBasic ==
    \A c \in Conns :
        Done(c) /\ IsBasic(c) =>
            LET d == DecodeString(TrimPrefix(FirstAuthorization(c), BasicSp))
            IN  d.err \/ Len(Split(d.out, Colon)) # 2 =>
                    Rejected(c, "Malformed Basic Authorization crdentials")

\* C4: a request without an Authorization header is forwarded iff the parsed
\* form has an access_token whose first value is the configured token;
\* otherwise it gets 401 "Mising or invalid access_token".
C4_AccessToken ==
    \A c \in Conns :
        Done(c) /\ ~HasAuthorization(c) => AccessTokenDecision(c)

C4_Witness ==
    \E c \in Conns :
        /\ ~HasAuthorization(c) /\ Forwarded(c)
        /\ Len(conn[c].req.Form.vals["access_token"]) = 2
        /\ conn[c].req.Form.vals["access_token"][2] # handler.token

\* C5 as stated: a request whose Authorization value has no space is never
\* forwarded.
C5_UnsplittableRejected ==
    \A c \in Conns :
        Done(c) /\ IsUnsplittable(c) =>
            /\ conn[c].forwarded = <<>>
            /\ conn[c].status = 401

\* C5 as amended: a request whose Authorization value has no space is
\* decided as if the header were absent, by the access_token parameter.
C5_UnsplittableFallsThrough ==
    \A c \in Conns :
        Done(c) /\ IsUnsplittable(c) => AccessTokenDecision(c)

C5_Witness ==
    \E c \in Conns :
        /\ IsUnsplittable(c) /\ Forwarded(c)
        /\ FirstAuthorization(c) = Bearer

\* C6: a request whose Authorization value has a scheme other than exactly
\* "Bearer" or "Basic" is decided as a request without the header is.
C6_OtherScheme ==
    \A c \in Conns :
        Done(c) /\ IsOtherScheme(c) => AccessTokenDecision(c)

C6_Witness ==
    \E c \in Conns :
        /\ IsOtherScheme(c) /\ Forwarded(c)
        /\ FirstAuthorization(c) = B("bearer x")

\* C7: every served request ends either forwarded once with nothing written
\* by the gate, or answered 401 with one of the reason strings and not
\* forwarded; nothing else (such as a panic) happens.
C7_TwoOutcomes ==
    \A c \in Conns :
        Done(c) => Forwarded(c) \/ \E reason \in Reasons : Rejected(c, reason)

\* C8 as stated: the request handed to the downstream handler is the
\* received one, unmodified, and the gate logged nothing.
C8_ForwardedUnchanged ==
    \A c \in Conns :
        Forwarded(c) =>
            conn[c].forwarded[1] = conn[c].recv /\ conn[c].logged = <<>>

\* C8 as amended: an authorized request is handed on with its method,
\* headers, query and content type untouched and nothing logged; through the
\* Bearer and Basic channels it is wholly unmodified; through the
\* access_token channel Form and PostForm have been set, and the body has
\* been read iff PostForm was unset and the request is a form-encoded
\* POST/PUT/PATCH.
C8_ForwardedFrame ==
    \A c \in Conns :
        Forwarded(c) =>
            LET in == conn[c].recv
                out == conn[c].forwarded[1]
            IN  /\ conn[c].logged = <<>>
                /\ out = conn[c].req
                /\ out.Method = in.Method /\ out.Header = in.Header
                /\ out.RawQuery = in.RawQuery /\ out.ContentType = in.ContentType
                /\ out.Body.pairs = in.Body.pairs
                /\ IsBearer(c) \/ IsBasic(c) => out = in
                /\ ~(IsBearer(c) \/ IsBasic(c)) =>
                      /\ ~out.Form.isNil /\ ~out.PostForm.isNil
                      /\ out.Body.read <=>
                            /\ in.PostForm.isNil
                            /\ in.Method \in {"POST", "PUT", "PATCH"}
                            /\ in.ContentType = FormUrlEncoded

C8_Witness ==
    \E c \in Conns :
        /\ Forwarded(c) /\ IsBasic(c)
        /\ conn[c].recv.Method = "POST"
        /\ conn[c].recv.Body.pairs # <<>>
        /\ conn[c].forwarded[1] = conn[c].recv

\* The observable result of serving the request on connection c.
Outcome(c) ==
    <<conn[c].status, conn[c].error, conn[c].logged, Len(conn[c].forwarded),
      conn[c].panicked, conn[c].req>>

\* C9: the same request gets the same decision and reason whenever and on
\* whichever connection it is served, and no step changes the gate's token
\* or downstream handler.
C9_Deterministic ==
    /\ [](\A c, d \in Conns :
            Done(c) /\ Done(d) /\ conn[c].recv = conn[d].recv => Outcome(c) = Outcome(d))
    /\ [][handler' = handler]_vars

C9_Witness ==
    /\ Forwarded(1) /\ Forwarded(2)
    /\ conn[1].recv = conn[2].recv
    /\ ~HasAuthorization(1)

\* C10: with scheme "Bearer" or "Basic" the access_token parameter is never
\* consulted: the form is not parsed, the request is forwarded only on the
\* header's credentials, and a wrong bearer token or wrong Basic password
\* gets 401.
C10_NoFallback ==
    \A c \in Conns :
        Done(c) /\ (IsBearer(c) \/ IsBasic(c)) =>
            /\ conn[c].req = conn[c].recv
            /\ IsBearer(c) =>
                  /\ Forwarded(c) =>
                        TrimPrefix(FirstAuthorization(c), BearerSp) = handler.token
                  /\ TrimPrefix(FirstAuthorization(c), BearerSp) # handler.token =>
                        Rejected(c, "Invalid Access Token")
            /\ IsBasic(c) =>
                  /\ Forwarded(c) =>
                        LET d == DecodeString(TrimPrefix(FirstAuthorization(c), BasicSp))
                        IN  ~d.err /\ Split(d.out, Colon)[2] = handler.token
                  /\ \A u \in Users, p \in Creds \ {handler.token} :
                        IsBasicOf(c, u, p) => Rejected(c, "Invalid credentials")

C10_Witness ==
    \E c \in Conns : \E u \in Users :
        /\ IsBasicOf(c, u, Wrong)
        /\ Rejected(c, "Invalid credentials")
        /\ ParseQuery(conn[c].recv.RawQuery) = [k \in {"access_token"} |-> <<handler.token>>]

=============================================================================
